---- MODULE Spec2Model ----
(***************************************************************************)
(* Model of DuplicateCleanerBot (src/main.py): the per-chat message store, *)
(* the activation state, the error tracker and the statistics, driven by   *)
(* the handlers the Application registers in run().                        *)
(*                                                                         *)
(* Scheduling: run() builds the Application with its defaults, so updates  *)
(* are processed one at a time; while handle_message is suspended in       *)
(* `await context.bot.delete_message` no other update handler starts, but  *)
(* the job queue's cleanup_job and the wall clock may still advance.       *)
(* The replies awaited by the command handlers and by the membership       *)
(* handler touch no state other handlers read, so each of those handlers   *)
(* is one action with the reply's outcome as an input.                     *)
(* cleanup_expired_messages has no await: the cleanup job is one action.   *)
(* The Flask thread that serves /stats reads self.stats beside the bot's   *)
(* thread, one counter at a time.                                          *)
(***************************************************************************)
EXTENDS Integers, Sequences, FiniteSets, TLC

None == "None"

\* ------------------------------------------------------------------------
\* Bounds of the model and program constants
\* ------------------------------------------------------------------------

\* the wall clock (datetime.now()) takes the values 0..MaxTime
MaxTime == 1

\* handle_message is called at most MaxMsgs times from the state after
\* construction
MaxMsgs == 3

\* the texts and captions given to generate_message_hash alone have 1..MaxTextLen
\* characters
MaxTextLen == 3

\* self.MAX_ENTRIES_PER_CHAT (10000 in the source, scaled down)
MAX_ENTRIES_PER_CHAT == 2

\* self.MAX_ERRORS_PER_CHAT (10 in the source, scaled down)
MAX_ERRORS_PER_CHAT == 1

NoneInt == 0 - 1

\* self.EXPIRY_DAYS of the earlier version of the bot (30 days there, scaled
\* down to one unit of the clock)
ExpiryDays == 1

\* self.EXPIRY_DAYS of src/main.py: None, infinite retention
EXPIRY_DAYS == NoneInt

\* chat ids (groups and channels have negative ids)
ChatX == 0 - 1001
ChatY == 0 - 1002
AllChats == {ChatX, ChatY}

\* ------------------------------------------------------------------------
\* Strings are sequences of one-character strings, so that strip, lower,
\* split, join and sorted can be computed as Python computes them.
\* ------------------------------------------------------------------------

\* the characters in use, in code point order
CharOrder == <<" ", "/", "0", "1", "2", "3", "4", "5", "6", "7", "8", "9",
               ":", "A", "B", "_", "a", "b", "c", "d", "e", "f", "g", "h",
               "i", "k", "l", "m", "n", "o", "p", "r", "s", "t", "u", "v",
               "x", "z", "|">>

Rank(c) == CHOOSE i \in 1..Len(CharOrder) : CharOrder[i] = c

\* str.lower() on one character
LowerChar(c) == IF c = "A" THEN "a" ELSE IF c = "B" THEN "b" ELSE c

\* str.lower()
Lower(s) == [i \in 1..Len(s) |-> LowerChar(s[i])]

IsSpace(c) == c = " "

\* str.split(): the maximal runs of non-whitespace characters, in order
RECURSIVE SplitFrom(_, _, _)
SplitFrom(s, i, cur) ==
    IF i > Len(s)
    THEN IF cur = <<>> THEN <<>> ELSE <<cur>>
    ELSE IF IsSpace(s[i])
         THEN IF cur = <<>>
              THEN SplitFrom(s, i + 1, <<>>)
              ELSE <<cur>> \o SplitFrom(s, i + 1, <<>>)
         ELSE SplitFrom(s, i + 1, Append(cur, s[i]))

Split(s) == SplitFrom(s, 1, <<>>)

\* sep.join(words)
RECURSIVE Join(_, _)
Join(sep, words) ==
    IF words = <<>> THEN <<>>
    ELSE IF Len(words) = 1 THEN words[1]
    ELSE words[1] \o sep \o Join(sep, Tail(words))

\* str.strip()
RECURSIVE LStrip(_)
LStrip(s) == IF s # <<>> /\ IsSpace(s[1]) THEN LStrip(Tail(s)) ELSE s

RECURSIVE RStrip(_)
RStrip(s) ==
    IF s # <<>> /\ IsSpace(s[Len(s)]) THEN RStrip(SubSeq(s, 1, Len(s) - 1)) ELSE s

Strip(s) == RStrip(LStrip(s))

\* the normalisation of the earlier version of the bot: text.strip()
NormalizeText_strips_only(s) == Strip(s)

\* ' '.join(text.strip().lower().split())
NormalizeText(s) == Join(<<" ">>, Split(Lower(Strip(s))))

\* str(n) for n >= 0
DigitChar(d) == CharOrder[d + 3]

RECURSIVE IntToStr(_)
IntToStr(n) == IF n < 10 THEN <<DigitChar(n)>> ELSE IntToStr(n \div 10) \o <<DigitChar(n % 10)>>

\* Python's < on str
RECURSIVE StrLess(_, _)
StrLess(a, b) ==
    IF b = <<>> THEN FALSE
    ELSE IF a = <<>> THEN TRUE
    ELSE IF a[1] = b[1] THEN StrLess(Tail(a), Tail(b))
    ELSE Rank(a[1]) < Rank(b[1])

\* sorted(list of str): insertion into an ascending list, stable
RECURSIVE InsertSorted(_, _)
InsertSorted(x, l) ==
    IF l = <<>> THEN <<x>>
    ELSE IF StrLess(x, l[1]) THEN <<x>> \o l
    ELSE <<l[1]>> \o InsertSorted(x, Tail(l))

RECURSIVE SortedStrs(_)
SortedStrs(l) ==
    IF l = <<>> THEN <<>>
    ELSE InsertSorted(l[Len(l)], SortedStrs(SubSeq(l, 1, Len(l) - 1)))

\* Optional values: an absent (None) str, list or object is the empty
\* sequence, an object that is present is a one-element sequence, and an
\* absent int is NoneInt.  A str is used by its truth value before any other
\* use, so None and '' need no separate encoding.

TruthySeq(x) == x # <<>>

TruthyInt(n) == n # NoneInt /\ n # 0

\* x or 0
OrZero(n) == IF TruthyInt(n) THEN n ELSE 0

\* max(photo, key=lambda x: x.file_size or 0): the first maximal element
RECURSIVE MaxPhotoFrom(_, _, _)
MaxPhotoFrom(photo, i, best) ==
    IF i > Len(photo) THEN best
    ELSE IF OrZero(photo[i].file_size) > OrZero(best.file_size)
         THEN MaxPhotoFrom(photo, i + 1, photo[i])
         ELSE MaxPhotoFrom(photo, i + 1, best)

MaxPhoto(photo) == MaxPhotoFrom(photo, 2, photo[1])

\* the prefixes of the f-strings of generate_message_hash
TagText == <<"t", "e", "x", "t", ":">>
TagCaption == <<"c", "a", "p", "t", "i", "o", "n", ":">>
TagPhoto == <<"p", "h", "o", "t", "o", ":">>
TagSize == <<"s", "i", "z", "e", ":">>
TagDocument == <<"d", "o", "c", "u", "m", "e", "n", "t", ":">>
TagFilename == <<"f", "i", "l", "e", "n", "a", "m", "e", ":">>
TagVideo == <<"v", "i", "d", "e", "o", ":">>
TagDuration == <<"d", "u", "r", "a", "t", "i", "o", "n", ":">>
TagAudio == <<"a", "u", "d", "i", "o", ":">>
TagTitle == <<"t", "i", "t", "l", "e", ":">>
TagVoice == <<"v", "o", "i", "c", "e", ":">>
TagVideoNote == <<"v", "i", "d", "e", "o", "_", "n", "o", "t", "e", ":">>
TagSticker == <<"s", "t", "i", "c", "k", "e", "r", ":">>
TagSet == <<"s", "e", "t", ":">>
TagAnimation == <<"a", "n", "i", "m", "a", "t", "i", "o", "n", ":">>

\* content_parts.append(tag + value) under `if cond`
PartIf(cond, tag, value) == IF cond THEN <<tag \o value>> ELSE <<>>

\* the content_parts list of generate_message_hash, in append order
ContentParts(m) ==
    PartIf(TruthySeq(m.text), TagText, NormalizeText(m.text))
    \o PartIf(TruthySeq(m.caption), TagCaption, NormalizeText(m.caption))
    \o (IF TruthySeq(m.photo)
        THEN LET largest_photo == MaxPhoto(m.photo)
             IN  <<TagPhoto \o largest_photo.file_unique_id>>
                 \o PartIf(TruthyInt(largest_photo.file_size), TagSize,
                           IntToStr(largest_photo.file_size))
        ELSE <<>>)
    \o (IF TruthySeq(m.document)
        THEN <<TagDocument \o m.document[1].file_unique_id>>
             \o PartIf(TruthySeq(m.document[1].file_name), TagFilename,
                       Lower(m.document[1].file_name))
             \o PartIf(TruthyInt(m.document[1].file_size), TagSize,
                       IntToStr(m.document[1].file_size))
        ELSE <<>>)
    \o (IF TruthySeq(m.video)
        THEN <<TagVideo \o m.video[1].file_unique_id>>
             \o PartIf(TruthyInt(m.video[1].duration), TagDuration,
                       IntToStr(m.video[1].duration))
             \o PartIf(TruthyInt(m.video[1].file_size), TagSize,
                       IntToStr(m.video[1].file_size))
        ELSE <<>>)
    \o (IF TruthySeq(m.audio)
        THEN <<TagAudio \o m.audio[1].file_unique_id>>
             \o PartIf(TruthyInt(m.audio[1].duration), TagDuration,
                       IntToStr(m.audio[1].duration))
             \o PartIf(TruthySeq(m.audio[1].title), TagTitle,
                       Lower(m.audio[1].title))
        ELSE <<>>)
    \o (IF TruthySeq(m.voice)
        THEN <<TagVoice \o m.voice[1].file_unique_id>>
             \o PartIf(TruthyInt(m.voice[1].duration), TagDuration,
                       IntToStr(m.voice[1].duration))
        ELSE <<>>)
    \o (IF TruthySeq(m.video_note)
        THEN <<TagVideoNote \o m.video_note[1].file_unique_id>>
             \o PartIf(TruthyInt(m.video_note[1].duration), TagDuration,
                       IntToStr(m.video_note[1].duration))
        ELSE <<>>)
    \o (IF TruthySeq(m.sticker)
        THEN <<TagSticker \o m.sticker[1].file_unique_id>>
             \o PartIf(TruthySeq(m.sticker[1].set_name), TagSet,
                       m.sticker[1].set_name)
        ELSE <<>>)
    \o (IF TruthySeq(m.animation)
        THEN <<TagAnimation \o m.animation[1].file_unique_id>>
             \o PartIf(TruthyInt(m.animation[1].file_size), TagSize,
                       IntToStr(m.animation[1].file_size))
        ELSE <<>>)

\* message_type: every branch that is taken overwrites it, so the last one
\* taken decides (the caption branch assigns nothing)
MessageType(m) ==
    IF TruthySeq(m.animation) THEN "animation"
    ELSE IF TruthySeq(m.sticker) THEN "sticker"
    ELSE IF TruthySeq(m.video_note) THEN "video_note"
    ELSE IF TruthySeq(m.voice) THEN "voice"
    ELSE IF TruthySeq(m.audio) THEN "audio"
    ELSE IF TruthySeq(m.video) THEN "video"
    ELSE IF TruthySeq(m.document) THEN "document"
    ELSE IF TruthySeq(m.photo) THEN "photo"
    ELSE IF TruthySeq(m.text) THEN "text"
    ELSE None

\* "|".join(sorted(content_parts))
CombinedContent(m) == Join(<<"|">>, SortedStrs(ContentParts(m)))

\* ------------------------------------------------------------------------
\* Inputs: the updates the handlers receive
\* ------------------------------------------------------------------------

EmptyMessage ==
    [text |-> <<>>, caption |-> <<>>, photo |-> <<>>, document |-> <<>>,
     video |-> <<>>, audio |-> <<>>, voice |-> <<>>, video_note |-> <<>>,
     sticker |-> <<>>, animation |-> <<>>, forward_origin |-> <<>>,
     is_bot |-> FALSE, user_id |-> 1]

MsgHello == [EmptyMessage EXCEPT !.text = <<"a", "b">>]

\* the same text in another case and spacing, forwarded by another user
MsgHelloFwd ==
    [EmptyMessage EXCEPT !.text = <<" ", "A", "b">>, !.forward_origin = <<"u">>,
                         !.user_id = 2]

MsgPhoto ==
    [EmptyMessage EXCEPT !.photo = <<[file_unique_id |-> <<"p", "1">>, file_size |-> 1],
                                     [file_unique_id |-> <<"p", "2">>, file_size |-> 2]>>,
                         !.caption = <<"c">>]

MsgDocument ==
    [EmptyMessage EXCEPT !.document = <<[file_unique_id |-> <<"d", "1">>,
                                         file_name |-> <<"A">>, file_size |-> 3]>>,
                         !.user_id = 2]

\* a service message: nothing to hash
MsgService == EmptyMessage

\* a text that starts with a slash and is no bot command, so that it passes
\* the ~filters.COMMAND of the MessageHandler
MsgCommand == [EmptyMessage EXCEPT !.text = <<"/", " ", "s">>]

MsgFromBot == [EmptyMessage EXCEPT !.text = <<"b">>, !.is_bot = TRUE]

AllMessages == {MsgHello, MsgHelloFwd, MsgPhoto, MsgDocument, MsgService,
                MsgCommand, MsgFromBot}

\* the messages of the main specification: three fingerprints, one of them
\* carried by two messages that differ in everything the entry records
Messages == {MsgHello, MsgHelloFwd, MsgPhoto, MsgDocument}

\* an animation as Telegram delivers it: the document field is set as well
MsgGif ==
    [EmptyMessage EXCEPT !.document = <<[file_unique_id |-> <<"d", "2">>,
                                         file_name |-> <<>>, file_size |-> NoneInt]>>,
                         !.animation = <<[file_unique_id |-> <<"g", "1">>,
                                          file_size |-> NoneInt]>>]

\* the texts and captions of the messages given to generate_message_hash alone
ProbeChars == {"a", "A", " "}
ProbeTexts == UNION {[1..n -> ProbeChars] : n \in 1..MaxTextLen}

ProbeText(t) == [EmptyMessage EXCEPT !.text = t]
ProbeCaptioned(t) == [MsgPhoto EXCEPT !.caption = t]

ProbeMessages ==
    {ProbeText(t) : t \in ProbeTexts} \cup {ProbeCaptioned(t) : t \in ProbeTexts}
        \cup {MsgGif}

\* the orders in which a list of n parts can be handed to sorted()
Perms(n) == {o \in [1..n -> 1..n] : \A i, j \in 1..n : o[i] = o[j] => i = j}

Permuted(parts, order) == [i \in 1..Len(parts) |-> parts[order[i]]]

\* "|".join(sorted(content_parts)) for a list of parts
CombineParts(content_parts) == Join(<<"|">>, SortedStrs(content_parts))

\* the strings the model digests: what "|".join(sorted(content_parts)) gives
\* for the parts of every message, collected in any order
DigestInputs ==
    UNION {{CombineParts(Permuted(ContentParts(m), o)) :
               o \in Perms(Len(ContentParts(m)))} :
           m \in AllMessages \cup ProbeMessages}

\* hashlib.sha256(s.encode()).hexdigest(): digests are taken to be free of
\* collisions, so a digest is modelled by a number that is different for
\* different strings: the place of s among the digested strings, from 1
Sha256(s) == 1 + Cardinality({t \in DigestInputs : StrLess(t, s)})

\* the None that generate_message_hash returns in place of a hash
NoHash == 0

\* a generate_message_hash that digests the empty list of parts as well
generate_message_hash_of_nothing(m) ==
    <<Sha256(CombinedContent(m)), MessageType(m)>>

\* generate_message_hash: <<message_hash, message_type>>
generate_message_hash(m) ==
    LET content_parts == ContentParts(m)
    IN  IF content_parts # <<>>
        THEN <<Sha256(CombinedContent(m)), MessageType(m)>>
        ELSE <<NoHash, None>>

\* generate_message_hash when content_parts holds the parts in another order
\* at the time it is sorted
generate_message_hash_in_order(m, order) ==
    LET content_parts == Permuted(ContentParts(m), order)
    IN  IF content_parts # <<>>
        THEN <<Sha256(CombineParts(content_parts)), MessageType(m)>>
        ELSE <<NoHash, None>>

\* generate_message_hash of every message of the model, computed once
HashResults == [m \in AllMessages |-> generate_message_hash(m)]

\* the outcomes of `await context.bot.delete_message(...)`: it returns, or it
\* raises a TelegramError whose text decides the branch of the handler
DeleteResults == {"ok", "rate_limited", "forbidden", "already_gone", "unknown_error"}

\* ChatMember statuses and Chat types
AdminStatuses == {"administrator", "creator"}
GoneStatuses == {"left", "kicked"}
\* the statuses the membership updates of the model carry
Statuses == {"administrator", "member", "kicked"}
OldStatuses == {"administrator", "member"}
ChatTypes == {"private", "supergroup", "channel"}
\* all of them: ChatMember.OWNER .. BANNED, None for an update without
\* old_chat_member, and Chat.PRIVATE .. CHANNEL
AllStatuses == {"creator", "administrator", "member", "restricted", "left", "kicked"}
AllOldStatuses == AllStatuses \cup {None}
AllChatTypes == {"private", "group", "supergroup", "channel"}

\* an auto-activation for channels only
AutoActivatedChatTypes_channels == {"channel"}

\* [Chat.CHANNEL, Chat.GROUP, Chat.SUPERGROUP]
AutoActivatedChatTypes == {"channel", "group", "supergroup"}

\* time.time() differences, in units of 2^-MaxMsgs ms so that every halving
\* of the estimate is exact
ResponseTimes == {2 ^ MaxMsgs}

ContentTypes == {"text", "photo", "video", "audio", "document", "voice", "sticker",
                 "animation"}

\* ------------------------------------------------------------------------
\* dict and defaultdict: a function on the set of keys present; the values of
\* message_store are the chat's entries in dict (insertion) order
\* ------------------------------------------------------------------------

DictSet(d, k, v) == [x \in DOMAIN d \cup {k} |-> IF x = k THEN v ELSE d[x]]

DictDel(d, k) == [x \in DOMAIN d \ {k} |-> d[x]]

\* d[k] on a defaultdict: a missing key is created with the default value
DefaultGet(d, k, default) == IF k \in DOMAIN d THEN d ELSE DictSet(d, k, default)

\* d.get(k, default)
Get(d, k, default) == IF k \in DOMAIN d THEN d[k] ELSE default

\* msg_hash in chat_messages
HasHash(chat_messages, h) == \E i \in 1..Len(chat_messages) : chat_messages[i].hash = h

IndexOf(chat_messages, h) ==
    CHOOSE i \in 1..Len(chat_messages) : chat_messages[i].hash = h

\* len([c for c in self.active_chats.values() if c])
CountActive(active) == Cardinality({c \in DOMAIN active : active[c]})

RECURSIVE SumLen(_, _)
SumLen(store, keys) ==
    IF keys = {} THEN 0
    ELSE LET k == CHOOSE x \in keys : TRUE
         IN  Len(store[k]) + SumLen(store, keys \ {k})

\* sum(len(messages) for messages in self.message_store.values())
TotalEntries(store) == SumLen(store, DOMAIN store)

\* ------------------------------------------------------------------------
\* The store operations
\* ------------------------------------------------------------------------

\* sorted(chat_messages.items(), key=timestamp, reverse=True): descending and
\* stable, entries with equal timestamps keep their dict order
RECURSIVE InsertByTimestampDesc(_, _)
InsertByTimestampDesc(x, l) ==
    IF l = <<>> THEN <<x>>
    ELSE IF x.timestamp > l[1].timestamp THEN <<x>> \o l
    ELSE <<l[1]>> \o InsertByTimestampDesc(x, Tail(l))

\* the sort without reverse=True: ascending, the oldest entries first
RECURSIVE InsertByTimestampAsc(_, _)
InsertByTimestampAsc(x, l) ==
    IF l = <<>> THEN <<x>>
    ELSE IF x.timestamp < l[1].timestamp THEN <<x>> \o l
    ELSE <<l[1]>> \o InsertByTimestampAsc(x, Tail(l))

RECURSIVE SortedByTimestampAsc(_)
SortedByTimestampAsc(l) ==
    IF l = <<>> THEN <<>>
    ELSE InsertByTimestampAsc(l[Len(l)], SortedByTimestampAsc(SubSeq(l, 1, Len(l) - 1)))

RECURSIVE SortedByTimestampDesc(_)
SortedByTimestampDesc(l) ==
    IF l = <<>> THEN <<>>
    ELSE InsertByTimestampDesc(l[Len(l)], SortedByTimestampDesc(SubSeq(l, 1, Len(l) - 1)))

\* limit_chat_entries with a slice that is one too long
limit_chat_entries_one_over(store, chat_id) ==
    LET chat_messages == store[chat_id]
    IN  IF Len(chat_messages) > MAX_ENTRIES_PER_CHAT
        THEN DictSet(store, chat_id,
                     SubSeq(SortedByTimestampDesc(chat_messages), 1,
                            MAX_ENTRIES_PER_CHAT + 1))
        ELSE store

\* limit_chat_entries that rebuilds the whole store from the limited chat
limit_chat_entries_drops_others(store, chat_id) ==
    LET chat_messages == store[chat_id]
    IN  IF Len(chat_messages) > MAX_ENTRIES_PER_CHAT
        THEN [c \in {chat_id} |->
                 SubSeq(SortedByTimestampDesc(chat_messages), 1, MAX_ENTRIES_PER_CHAT)]
        ELSE store

\* limit_chat_entries(chat_id): the new value of self.message_store
limit_chat_entries(store, chat_id) ==
    LET chat_messages == store[chat_id]
    IN  IF Len(chat_messages) > MAX_ENTRIES_PER_CHAT
        THEN LET sorted_messages == SortedByTimestampDesc(chat_messages)
                 new_messages == SubSeq(sorted_messages, 1, MAX_ENTRIES_PER_CHAT)
             IN  DictSet(store, chat_id, new_messages)
        ELSE store

\* the test of expiry with <= for <: an entry exactly expiry_days old expires
RECURSIVE Unexpired_after_threshold(_, _)
Unexpired_after_threshold(chat_messages, threshold) ==
    IF chat_messages = <<>> THEN <<>>
    ELSE IF chat_messages[1].timestamp <= threshold
         THEN Unexpired_after_threshold(Tail(chat_messages), threshold)
         ELSE <<chat_messages[1]>>
                  \o Unexpired_after_threshold(Tail(chat_messages), threshold)

\* a pass that deletes only the first expired entry it meets in a chat
RECURSIVE Unexpired_but_first(_, _)
Unexpired_but_first(chat_messages, threshold) ==
    IF chat_messages = <<>> THEN <<>>
    ELSE IF chat_messages[1].timestamp < threshold
         THEN Tail(chat_messages)
         ELSE <<chat_messages[1]>> \o Unexpired_but_first(Tail(chat_messages), threshold)

\* the entries of a chat that are not expired at `threshold`, in dict order
RECURSIVE Unexpired(_, _)
Unexpired(chat_messages, threshold) ==
    IF chat_messages = <<>> THEN <<>>
    ELSE IF chat_messages[1].timestamp < threshold
         THEN Unexpired(Tail(chat_messages), threshold)
         ELSE <<chat_messages[1]>> \o Unexpired(Tail(chat_messages), threshold)

\* cleanup_expired_messages without the early return of infinite memory mode:
\* None counts as zero days
cleanup_expired_messages_always(store, current_time, expiry_days) ==
    LET days == IF expiry_days = NoneInt THEN 0 ELSE expiry_days
        expiry_threshold == current_time - days
        kept == {c \in DOMAIN store :
                    Unexpired(store[c], expiry_threshold) # <<>>}
    IN  [c \in kept |-> Unexpired(store[c], expiry_threshold)]

\* a cleanup that gives way to the handlers after the first chat it changed
cleanup_expired_messages_one_chat(store, current_time, expiry_days) ==
    IF expiry_days = NoneInt THEN store
    ELSE LET expiry_threshold == current_time - expiry_days
             expired == {c \in DOMAIN store :
                            Unexpired(store[c], expiry_threshold) # store[c]}
         IN  IF expired = {} THEN store
             ELSE LET chat_id == CHOOSE c \in expired : \A d \in expired : c >= d
                      chat_messages == Unexpired(store[chat_id], expiry_threshold)
                  IN  IF chat_messages = <<>> THEN DictDel(store, chat_id)
                      ELSE DictSet(store, chat_id, chat_messages)

\* cleanup_expired_messages(): the new value of self.message_store
cleanup_expired_messages(store, current_time, expiry_days) ==
    IF expiry_days = NoneInt THEN store
    ELSE LET expiry_threshold == current_time - expiry_days
             kept == {c \in DOMAIN store :
                         Unexpired(store[c], expiry_threshold) # <<>>}
         IN  [c \in kept |-> Unexpired(store[c], expiry_threshold)]

\* a stop that forgets to delete the chat's stored messages
ClearChat_keeps(store, chat_id) == store

\* if chat_id in self.message_store: del self.message_store[chat_id]
ClearChat(store, chat_id) ==
    IF chat_id \in DOMAIN store THEN DictDel(store, chat_id) ELSE store

\* a refresh that stores a new metadata dict in place of the old one
touch_rewrites(store, chat_id, message_hash, current_time) ==
    [store EXCEPT ![chat_id][IndexOf(store[chat_id], message_hash)] =
        [hash |-> message_hash, timestamp |-> current_time, message_id |-> 0,
         type |-> None, forwarded |-> FALSE, user_id |-> 0, size |-> NoneInt]]

\* chat_messages[message_hash]["timestamp"] = current_time
touch(store, chat_id, message_hash, current_time) ==
    [store EXCEPT ![chat_id][IndexOf(store[chat_id], message_hash)].timestamp =
                      current_time]

\* getattr(getattr(update.message, message_type, None), 'file_size', None):
\* a str (text) and a tuple of PhotoSize (photo) have no file_size
SizeOf(m, message_type) ==
    CASE message_type = "document" -> m.document[1].file_size
      [] message_type = "video" -> m.video[1].file_size
      [] message_type = "audio" -> m.audio[1].file_size
      [] message_type = "voice" -> m.voice[1].file_size
      [] message_type = "video_note" -> m.video_note[1].file_size
      [] message_type = "sticker" -> m.sticker[1].file_size
      [] message_type = "animation" -> m.animation[1].file_size
      [] OTHER -> NoneInt

\* hasattr(message, 'forward_origin') and message.forward_origin is not None
IsForwarded(m) == m.forward_origin # <<>>

\* the metadata dict stored for a new message, with its key
NewEntry(m, message_hash, message_type, message_id, current_time) ==
    [hash |-> message_hash,
     timestamp |-> current_time,
     message_id |-> message_id,
     type |-> message_type,
     forwarded |-> IsForwarded(m),
     user_id |-> m.user_id,
     size |-> SizeOf(m, message_type)]

\* an estimate that is the last response time
UpdateAvgResponseTime_replaces(avg, response_time) == response_time

\* the response time update at the end of handle_message
UpdateAvgResponseTime(avg, response_time) ==
    IF avg = 0 THEN response_time ELSE (avg + response_time) \div 2

\* update.message.text and update.message.text.startswith('/')
IsCommandText(m) == TruthySeq(m.text) /\ m.text[1] = "/"

\* ------------------------------------------------------------------------
\* State
\* ------------------------------------------------------------------------

VARIABLES
    message_store,           \* self.message_store
    active_chats,            \* self.active_chats
    auto_activated_channels, \* self.auto_activated_channels
    rate_limit_tracker,      \* self.rate_limit_tracker
    error_tracker,           \* self.error_tracker
    stats,                   \* self.stats
    now,                     \* the wall clock read by datetime.now()
    pending,                 \* what a handle_message call suspended in `await
                             \* delete_message` uses of its locals when it
                             \* resumes, <<>> when no call is suspended
    last,                    \* history: the operation that completed last
    prev,                    \* history: the operation that completed before it
    fresh                    \* history: per chat, the number of messages stored
                             \* since the chat's store was last empty, NoneInt
                             \* once one of them was seen again
VARIABLES
    snapshot,                \* the counters the /stats request in flight in the
                             \* Flask thread has read so far, in the order
                             \* it reads them
    instants                 \* history: the values the counters have had since
                             \* that request read the first of them

VARIABLES
    probe                    \* a call of generate_message_hash outside the
                             \* handlers: two messages, the order of the second
                             \* one's parts and the two results; <<>> when the
                             \* handlers run

vars == <<message_store, active_chats, auto_activated_channels, rate_limit_tracker,
          error_tracker, stats, now, pending, last, prev, fresh, snapshot, instants,
          probe>>

\* the counters stats() puts in its response, in the order it reads them
CountersOf(s) ==
    <<s.messages_processed, s.duplicates_deleted, s.forwarded_duplicates,
      s.original_duplicates>>

\* a step of the bot's thread: the request in flight has read what it has
\* read, and the counters the step leaves are values it may read next (no
\* handler is running when generate_message_hash is called alone)
Watch ==
    /\ probe' = probe
    /\ snapshot' = snapshot
    /\ instants' = IF snapshot # <<>> /\ Len(snapshot) < Len(CountersOf(stats))
                   THEN instants \cup {CountersOf(stats')}
                   ELSE instants

\* the entries of a chat, empty when the chat has no key in the store
EntriesOf(store, chat_id) == Get(store, chat_id, <<>>)

\* the timestamp stored for a hash in a chat, NoneInt when it has no entry
TimestampOf(store, chat_id, message_hash) ==
    LET chat_messages == EntriesOf(store, chat_id)
    IN  IF HasHash(chat_messages, message_hash)
        THEN chat_messages[IndexOf(chat_messages, message_hash)].timestamp
        ELSE NoneInt

\* what the history records of one completed operation
Completed(op, chat_id, message_hash, action, result, time, removed, d_processed, d_dups) ==
    [op |-> op, chat |-> chat_id, hash |-> message_hash, action |-> action,
     result |-> result, time |-> time, old_time |-> NoneInt, removed |-> removed,
     cleared |-> 0, d_processed |-> d_processed, d_dups |-> d_dups]

\* the same for a handle_message call that found the hash: old_time is the
\* timestamp the entry had when the call was resumed
CompletedDuplicate(p, result, d_dups) ==
    [Completed("process", p.chat_id, p.message_hash, "delete_duplicate", result,
               p.current_time, <<>>, 1, d_dups)
       EXCEPT !.old_time = TimestampOf(message_store, p.chat_id, p.message_hash)]

\* the same for an operation that deleted a chat's entries: their number
Cleared(op, chat_id, n) ==
    [Completed(op, chat_id, NoHash, "none", "none", 0, <<>>, 0, 0) EXCEPT !.cleared = n]

\* the entries of `before` that are no longer in `after`, in dict order
RECURSIVE Removed(_, _)
Removed(before, after) ==
    IF before = <<>> THEN <<>>
    ELSE IF HasHash(after, before[1].hash)
         THEN Removed(Tail(before), after)
         ELSE <<before[1]>> \o Removed(Tail(before), after)

\* what the history keeps of the operation before the last one: whether it
\* was a stop_bot_command, or a cleanup job or a removal of the bot that
\* deleted entries, and then its chat, the number of entries it deleted and
\* its time
Brief(c) ==
    IF c.op = "deactivate" \/ (c.op \in {"run_sweep", "remove"} /\ c.cleared > 0)
    THEN [op |-> c.op, chat |-> c.chat, cleared |-> c.cleared, time |-> c.time]
    ELSE [op |-> "other", chat |-> 0, cleared |-> 0, time |-> 0]

\* the history of stored messages counts up to MAX_ENTRIES_PER_CHAT + 2
FreshAfterStore(n, was_empty) ==
    IF was_empty THEN 1
    ELSE IF n = NoneInt THEN NoneInt
    ELSE IF n <= MAX_ENTRIES_PER_CHAT + 1 THEN n + 1
    ELSE n

\* the bot's attributes after __init__
Constructed ==
    /\ message_store = <<>>
    /\ active_chats = <<>>
    /\ auto_activated_channels = {}
    /\ rate_limit_tracker = [c \in AllChats |-> <<>>]
    /\ error_tracker = [c \in AllChats |-> 0]
    /\ stats = [messages_processed |-> 0,
                duplicates_deleted |-> 0,
                active_chats |-> 0,
                avg_response_time |-> 0,
                total_memory_usage |-> 0,
                largest_chat_size |-> 0,
                content_types_processed |-> [t \in ContentTypes |-> 0],
                forwarded_duplicates |-> 0,
                original_duplicates |-> 0]
    /\ now = 0
    /\ pending = <<>>
    /\ last = Completed("init", 0, NoHash, "none", "none", 0, <<>>, 0, 0)
    /\ prev = Brief(last)
    /\ fresh = [c \in AllChats |-> 0]
    /\ snapshot = <<>>
    /\ instants = {}

Init ==
    /\ Constructed
    /\ probe = <<>>

\* ------------------------------------------------------------------------
\* handle_message
\* ------------------------------------------------------------------------

\* the gates of handle_message that return before the store is read
Ignored(chat_id, m) ==
    \/ ~Get(active_chats, chat_id, FALSE)
    \/ m.is_bot
    \/ IsCommandText(m)
    \/ HashResults[m][1] = NoHash

\* the gate at which handle_message returns, in the order it tests them
ReturnedAt(chat_id, m) ==
    IF ~Get(active_chats, chat_id, FALSE) THEN "inactive"
    ELSE IF m.is_bot \/ IsCommandText(m) THEN "bot_or_command"
    ELSE IF HashResults[m][1] = NoHash THEN "no_content"
    ELSE None

\* counting that starts the other content types again from zero
StatsAtLookup_restarts(m) ==
    LET message_type == HashResults[m][2]
        s1 == [stats EXCEPT !.messages_processed = @ + 1]
    IN  IF message_type \in ContentTypes
        THEN [s1 EXCEPT !.content_types_processed =
                 [t \in ContentTypes |-> IF t = message_type THEN @[t] + 1 ELSE 0]]
        ELSE s1

\* self.stats after the increment of messages_processed and, past the gates,
\* of the content type's count
StatsAtLookup(m) ==
    LET message_type == HashResults[m][2]
        s1 == [stats EXCEPT !.messages_processed = @ + 1]
    IN  IF message_type \in ContentTypes
        THEN [s1 EXCEPT !.content_types_processed[message_type] = @ + 1]
        ELSE s1

\* a handle_message that counts the content type before its gates
HandleMessageIgnored_counts_type(chat_id, m) ==
    /\ pending = <<>>
    /\ Ignored(chat_id, m)
    /\ stats' = StatsAtLookup(m)
    /\ prev' = Brief(last)
    /\ last' = Completed("process", chat_id, NoHash, "ignore", ReturnedAt(chat_id, m), 0,
                         <<>>, 1, 0)
    /\ Watch
    /\ UNCHANGED <<message_store, active_chats, auto_activated_channels,
                   rate_limit_tracker, error_tracker, now, pending, fresh>>

\* a handle_message that wakes the chat whose message it ignores
HandleMessageIgnored_wakes(chat_id, m) ==
    /\ pending = <<>>
    /\ Ignored(chat_id, m)
    /\ stats' = [stats EXCEPT !.messages_processed = @ + 1]
    /\ active_chats' = DictSet(active_chats, chat_id, TRUE)
    /\ prev' = Brief(last)
    /\ last' = Completed("process", chat_id, NoHash, "ignore", ReturnedAt(chat_id, m), 0,
                         <<>>, 1, 0)
    /\ Watch
    /\ UNCHANGED <<message_store, auto_activated_channels, rate_limit_tracker,
                   error_tracker, now, pending, fresh>>

\* handle_message returns at one of its gates: only messages_processed moves
\* (the history records the gate as the result)
HandleMessageIgnored(chat_id, m) ==
    /\ pending = <<>>
    /\ Ignored(chat_id, m)
    /\ stats' = [stats EXCEPT !.messages_processed = @ + 1]
    /\ prev' = Brief(last)
    /\ last' = Completed("process", chat_id, NoHash, "ignore", ReturnedAt(chat_id, m), 0,
                         <<>>, 1, 0)
    /\ Watch
    /\ UNCHANGED <<message_store, active_chats, auto_activated_channels,
                   rate_limit_tracker, error_tracker, now, pending, fresh>>

\* handle_message finds no entry for the hash: it stores the message, updates
\* the memory statistics, limits the chat's entries and updates the response time
HandleMessageNew(chat_id, m, response_time) ==
    /\ pending = <<>>
    /\ ~Ignored(chat_id, m)
    /\ LET hash_result == HashResults[m]
           message_hash == hash_result[1]
           message_type == hash_result[2]
           message_id == stats.messages_processed + 1
           store1 == DefaultGet(message_store, chat_id, <<>>)
           current_time == now
           store2 == [store1 EXCEPT ![chat_id] =
                         Append(@, NewEntry(m, message_hash, message_type,
                                            message_id, current_time))]
           chat_size == Len(store2[chat_id])
           stats1 == StatsAtLookup(m)
           stats2 == [stats1 EXCEPT
                         !.total_memory_usage = TotalEntries(store2),
                         !.largest_chat_size =
                             IF chat_size > @ THEN chat_size ELSE @]
           store3 == limit_chat_entries(store2, chat_id)
       IN  /\ ~HasHash(store1[chat_id], message_hash)
           /\ message_store' = store3
           /\ stats' = [stats2 EXCEPT !.avg_response_time =
                           UpdateAvgResponseTime(@, response_time)]
           /\ prev' = Brief(last)
           /\ last' = Completed("process", chat_id, message_hash, "store_new", "none",
                                current_time,
                                Removed(store2[chat_id], store3[chat_id]), 1, 0)
           /\ fresh' = [fresh EXCEPT ![chat_id] =
                           FreshAfterStore(@, store1[chat_id] = <<>>)]
    /\ Watch
    /\ UNCHANGED <<active_chats, auto_activated_channels, rate_limit_tracker,
                   error_tracker, now, pending>>

\* a lookup that searches the entries of every chat
HandleMessageDuplicate_any_chat(chat_id, m) ==
    /\ pending = <<>>
    /\ ~Ignored(chat_id, m)
    /\ LET hash_result == HashResults[m]
           store1 == DefaultGet(message_store, chat_id, <<>>)
       IN  /\ \E c \in DOMAIN store1 : HasHash(store1[c], hash_result[1])
           /\ message_store' = store1
           /\ stats' = StatsAtLookup(m)
           /\ pending' = <<[chat_id |-> chat_id,
                            message_hash |-> hash_result[1],
                            current_time |-> now,
                            is_forwarded |-> IsForwarded(m)]>>
           /\ fresh' = [fresh EXCEPT ![chat_id] = NoneInt]
    /\ Watch
    /\ UNCHANGED <<active_chats, auto_activated_channels, rate_limit_tracker,
                   error_tracker, now, last, prev>>

\* handle_message finds the hash in the chat's entries and suspends in
\* `await context.bot.delete_message(...)`
HandleMessageDuplicate(chat_id, m) ==
    /\ pending = <<>>
    /\ ~Ignored(chat_id, m)
    /\ LET hash_result == HashResults[m]
           store1 == DefaultGet(message_store, chat_id, <<>>)
       IN  /\ HasHash(store1[chat_id], hash_result[1])
           /\ message_store' = store1
           /\ stats' = StatsAtLookup(m)
           /\ pending' = <<[chat_id |-> chat_id,
                            message_hash |-> hash_result[1],
                            current_time |-> now,
                            is_forwarded |-> IsForwarded(m)]>>
           /\ fresh' = [fresh EXCEPT ![chat_id] = NoneInt]
    /\ Watch
    /\ UNCHANGED <<active_chats, auto_activated_channels, rate_limit_tracker,
                   error_tracker, now, last, prev>>

\* a successful delete that forgives the chat its earlier errors
DeleteSucceeded_resets(response_time) ==
    /\ pending # <<>>
    /\ LET p == pending[1]
           stats1 == IF p.is_forwarded
                     THEN [stats EXCEPT !.forwarded_duplicates = @ + 1]
                     ELSE [stats EXCEPT !.original_duplicates = @ + 1]
           stats2 == [stats1 EXCEPT !.duplicates_deleted = @ + 1]
           found == HasHash(EntriesOf(message_store, p.chat_id), p.message_hash)
       IN  /\ message_store' =
                  IF found
                  THEN touch(message_store, p.chat_id, p.message_hash, p.current_time)
                  ELSE message_store
           /\ stats' = IF found
                       THEN [stats2 EXCEPT !.avg_response_time =
                                UpdateAvgResponseTime(@, response_time)]
                       ELSE stats2
           /\ error_tracker' = [error_tracker EXCEPT ![p.chat_id] = 0]
           /\ prev' = Brief(last)
           /\ last' = CompletedDuplicate(p, "ok",
                           stats2.duplicates_deleted - stats.duplicates_deleted)
    /\ pending' = <<>>
    /\ Watch
    /\ UNCHANGED <<active_chats, auto_activated_channels, rate_limit_tracker,
                   now, fresh>>

\* delete_message returned: the statistics of the duplicate are counted and
\* the stored entry's timestamp is set to the current_time read before the await.
\* When a cleanup job has expired the entry during the await,
\* chat_messages[message_hash] raises KeyError after the counters were updated:
\* the handler ends there, without the response time update.
DeleteSucceeded(response_time) ==
    /\ pending # <<>>
    /\ LET p == pending[1]
           stats1 == IF p.is_forwarded
                     THEN [stats EXCEPT !.forwarded_duplicates = @ + 1]
                     ELSE [stats EXCEPT !.original_duplicates = @ + 1]
           stats2 == [stats1 EXCEPT !.duplicates_deleted = @ + 1]
           found == HasHash(EntriesOf(message_store, p.chat_id), p.message_hash)
       IN  /\ message_store' =
                  IF found
                  THEN touch(message_store, p.chat_id, p.message_hash, p.current_time)
                  ELSE message_store
           /\ stats' = IF found
                       THEN [stats2 EXCEPT !.avg_response_time =
                                UpdateAvgResponseTime(@, response_time)]
                       ELSE stats2
           /\ prev' = Brief(last)
           /\ last' = CompletedDuplicate(p, "ok",
                           stats2.duplicates_deleted - stats.duplicates_deleted)
    /\ pending' = <<>>
    /\ Watch
    /\ UNCHANGED <<active_chats, auto_activated_channels, rate_limit_tracker,
                   error_tracker, now, fresh>>

\* delete_message raised TelegramError: the error is counted for the chat,
\* a rate limit is recorded, and the chat is deactivated past the threshold
DeleteFailed(result, response_time) ==
    /\ pending # <<>>
    /\ result \in DeleteResults \ {"ok"}
    /\ LET p == pending[1]
           errors == error_tracker[p.chat_id] + 1
       IN  /\ error_tracker' = [error_tracker EXCEPT ![p.chat_id] = errors]
           /\ rate_limit_tracker' =
                  IF result = "rate_limited"
                  THEN [rate_limit_tracker EXCEPT ![p.chat_id] = Append(@, now)]
                  ELSE rate_limit_tracker
           /\ active_chats' =
                  IF errors > MAX_ERRORS_PER_CHAT
                  THEN DictSet(active_chats, p.chat_id, FALSE)
                  ELSE active_chats
           /\ stats' = [stats EXCEPT !.avg_response_time =
                           UpdateAvgResponseTime(@, response_time)]
           /\ prev' = Brief(last)
           /\ last' = CompletedDuplicate(p, result, 0)
    /\ pending' = <<>>
    /\ Watch
    /\ UNCHANGED <<message_store, auto_activated_channels, now, fresh>>

\* ------------------------------------------------------------------------
\* The other handlers, the cleanup job and the clock
\* ------------------------------------------------------------------------

\* start_bot_command: the chat is activated before the reply is awaited; when
\* the reply raises, the except branch skips the recount of active chats
start_bot_command(chat_id, reply_ok) ==
    /\ pending = <<>>
    /\ active_chats' = DictSet(active_chats, chat_id, TRUE)
    /\ stats' = IF reply_ok
                THEN [stats EXCEPT !.active_chats = CountActive(active_chats')]
                ELSE stats
    /\ prev' = Brief(last)
    /\ last' = Completed("activate", chat_id, NoHash, "none", "none", 0, <<>>, 0, 0)
    /\ Watch
    /\ UNCHANGED <<message_store, auto_activated_channels, rate_limit_tracker,
                   error_tracker, now, pending, fresh>>

\* stop_bot_command: the chat is deactivated and its stored messages deleted
\* before the reply is awaited
stop_bot_command(chat_id, reply_ok) ==
    /\ pending = <<>>
    /\ active_chats' = DictSet(active_chats, chat_id, FALSE)
    /\ auto_activated_channels' = auto_activated_channels \ {chat_id}
    /\ message_store' = ClearChat(message_store, chat_id)
    /\ stats' = IF reply_ok
                THEN [stats EXCEPT !.active_chats = CountActive(active_chats')]
                ELSE stats
    /\ prev' = Brief(last)
    /\ last' = Cleared("deactivate", chat_id, Len(EntriesOf(message_store, chat_id)))
    /\ fresh' = [fresh EXCEPT ![chat_id] = 0]
    /\ Watch
    /\ UNCHANGED <<rate_limit_tracker, error_tracker, now, pending>>

\* handle_chat_member_update, the bot became administrator or owner of a
\* channel, group or supergroup (the notice it sends changes no state)
MemberUpdateAutoActivate(chat_id, chat_type, old_status, new_status) ==
    /\ pending = <<>>
    /\ new_status \in AdminStatuses
    /\ old_status \notin AdminStatuses
    /\ chat_type \in AutoActivatedChatTypes
    /\ active_chats' = DictSet(active_chats, chat_id, TRUE)
    /\ auto_activated_channels' = auto_activated_channels \cup {chat_id}
    /\ stats' = [stats EXCEPT !.active_chats = CountActive(active_chats')]
    /\ prev' = Brief(last)
    /\ last' = Completed("auto_activate", chat_id, NoHash, "none", "none", 0, <<>>, 0, 0)
    /\ Watch
    /\ UNCHANGED <<message_store, rate_limit_tracker, error_tracker, now, pending,
                   fresh>>

\* handle_chat_member_update, the bot left or was kicked
MemberUpdateRemoved(chat_id, chat_type, old_status, new_status) ==
    /\ pending = <<>>
    /\ ~(new_status \in AdminStatuses /\ old_status \notin AdminStatuses)
    /\ new_status \in GoneStatuses
    /\ active_chats' = IF chat_id \in DOMAIN active_chats
                       THEN DictDel(active_chats, chat_id)
                       ELSE active_chats
    /\ message_store' = ClearChat(message_store, chat_id)
    /\ auto_activated_channels' = auto_activated_channels \ {chat_id}
    /\ stats' = [stats EXCEPT !.active_chats = CountActive(active_chats')]
    /\ prev' = Brief(last)
    /\ last' = Cleared("remove", chat_id, Len(EntriesOf(message_store, chat_id)))
    /\ fresh' = [fresh EXCEPT ![chat_id] = 0]
    /\ Watch
    /\ UNCHANGED <<rate_limit_tracker, error_tracker, now, pending>>

\* handle_chat_member_update, any other change of status: only the count of
\* active chats is refreshed (the history does not record it)
MemberUpdateOther(chat_id, chat_type, old_status, new_status) ==
    /\ pending = <<>>
    /\ \/ /\ new_status \in AdminStatuses
          /\ old_status \notin AdminStatuses
          /\ chat_type \notin AutoActivatedChatTypes
       \/ /\ ~(new_status \in AdminStatuses /\ old_status \notin AdminStatuses)
          /\ new_status \notin GoneStatuses
    /\ stats' = [stats EXCEPT !.active_chats = CountActive(active_chats)]
    /\ Watch
    /\ UNCHANGED <<message_store, active_chats, auto_activated_channels,
                   rate_limit_tracker, error_tracker, now, pending, last, prev,
                   fresh>>

\* the cleanup job with self.EXPIRY_DAYS = expiry_days: the job queue runs it
\* between any two steps of the handlers (the history records its time and
\* the number of entries it removed)
CleanupJob(expiry_days) ==
    /\ message_store' = cleanup_expired_messages(message_store, now, expiry_days)
    /\ prev' = Brief(last)
    /\ last' = [Completed("run_sweep", 0, NoHash, "none", "none", now, <<>>, 0, 0)
                  EXCEPT !.cleared = TotalEntries(message_store)
                                       - TotalEntries(message_store')]
    /\ Watch
    /\ UNCHANGED <<active_chats, auto_activated_channels, rate_limit_tracker,
                   error_tracker, stats, now, pending, fresh>>

\* cleanup_job of src/main.py, where self.EXPIRY_DAYS is None
cleanup_job == CleanupJob(EXPIRY_DAYS)

\* the wall clock advances; two reads of datetime.now() without a Tick between
\* them return the same value
TickTo(max_time) ==
    /\ now < max_time
    /\ now' = now + 1
    /\ Watch
    /\ UNCHANGED <<message_store, active_chats, auto_activated_channels,
                   rate_limit_tracker, error_tracker, stats, pending, last, prev,
                   fresh>>

Tick == TickTo(MaxTime)

\* stats() of the Flask thread reads the next counter of self.stats; the bot's
\* thread may run between any two of its reads
StatsRead ==
    /\ Len(snapshot) < Len(CountersOf(stats))
    /\ snapshot' = Append(snapshot, CountersOf(stats)[Len(snapshot) + 1])
    /\ instants' = IF snapshot = <<>> THEN {CountersOf(stats)} ELSE instants
    /\ UNCHANGED <<message_store, active_chats, auto_activated_channels,
                   rate_limit_tracker, error_tracker, stats, now, pending, last,
                   prev, fresh, probe>>

\* stats() returns its response; the next request starts from nothing
StatsReturn ==
    /\ Len(snapshot) = Len(CountersOf(stats))
    /\ snapshot' = <<>>
    /\ instants' = {}
    /\ UNCHANGED <<message_store, active_chats, auto_activated_channels,
                   rate_limit_tracker, error_tracker, stats, now, pending, last,
                   prev, fresh, probe>>

\* the next-state relation of a specification: its chats, its messages and
\* the number of handle_message calls it explores
NextOver(chats, messages, max_msgs) ==
    \/ /\ stats.messages_processed < max_msgs
       /\ \E c \in chats, m \in messages : HandleMessageIgnored(c, m)
    \/ /\ stats.messages_processed < max_msgs
       /\ \E c \in chats, m \in messages, rt \in ResponseTimes :
             HandleMessageNew(c, m, rt)
    \/ /\ stats.messages_processed < max_msgs
       /\ \E c \in chats, m \in messages : HandleMessageDuplicate(c, m)
    \/ \E rt \in ResponseTimes : DeleteSucceeded(rt)
    \/ \E r \in DeleteResults, rt \in ResponseTimes : DeleteFailed(r, rt)
    \/ \E c \in chats, ok \in BOOLEAN : start_bot_command(c, ok)
    \/ \E c \in chats, ok \in BOOLEAN : stop_bot_command(c, ok)
    \/ \E c \in chats, t \in ChatTypes, o \in OldStatuses, n \in Statuses :
          \/ MemberUpdateAutoActivate(c, t, o, n)
          \/ MemberUpdateRemoved(c, t, o, n)
          \/ MemberUpdateOther(c, t, o, n)
    \/ cleanup_job
    \/ Tick

\* the main specification: one chat, from the state after construction
Next == NextOver({ChatX}, Messages, MaxMsgs)

Spec == Init /\ [][Next]_vars

\* Two chats.  The specification starts where both chats were started and
\* three messages were stored at time 0, two of them in ChatX, which is then at
\* its capacity, and one in ChatY:
\*   start_bot_command(ChatX), start_bot_command(ChatY),
\*   handle_message(ChatX, MsgHello), handle_message(ChatX, MsgPhoto),
\*   handle_message(ChatY, MsgDocument)
\* and explores every operation on both chats with one more message (two with
\* MaxMsgs raised by one).
TwoChatsStart ==
    /\ message_store =
           [c \in AllChats |->
               IF c = ChatX
               THEN <<NewEntry(MsgHello, HashResults[MsgHello][1], "text", 1, 0),
                      NewEntry(MsgPhoto, HashResults[MsgPhoto][1], "photo", 2, 0)>>
               ELSE <<NewEntry(MsgDocument, HashResults[MsgDocument][1], "document",
                               3, 0)>>]
    /\ active_chats = [c \in AllChats |-> TRUE]
    /\ auto_activated_channels = {}
    /\ rate_limit_tracker = [c \in AllChats |-> <<>>]
    /\ error_tracker = [c \in AllChats |-> 0]
    /\ stats = [messages_processed |-> 3,
                duplicates_deleted |-> 0,
                active_chats |-> 2,
                avg_response_time |-> 2 ^ MaxMsgs,
                total_memory_usage |-> 3,
                largest_chat_size |-> 2,
                content_types_processed |->
                    [t \in ContentTypes |->
                        IF t \in {"text", "photo", "document"} THEN 1 ELSE 0],
                forwarded_duplicates |-> 0,
                original_duplicates |-> 0]
    /\ now = 0
    /\ pending = <<>>
    /\ last = Completed("process", ChatY, HashResults[MsgDocument][1], "store_new",
                        "none", 0, <<>>, 1, 0)
    /\ prev = [op |-> "other", chat |-> 0, cleared |-> 0, time |-> 0]
    /\ fresh = [c \in AllChats |-> IF c = ChatX THEN 2 ELSE 1]
    /\ snapshot = <<>>
    /\ instants = {}
    /\ probe = <<>>

NextTwoChats == NextOver(AllChats, Messages, MaxMsgs + 1)

SpecTwoChats == TwoChatsStart /\ [][NextTwoChats]_vars

\* The retention period enabled: self.EXPIRY_DAYS set to a number of days, as in
\* the earlier version of the bot (src/attached_assets), whose
\* cleanup_expired_messages is the part of src/main.py's after the early return.
\* The specification starts at TwoChatsStart, lets the clock run one unit
\* further so that entries outlive the period, and explores one more message.
ExpiryMessages == {MsgHello, MsgPhoto, MsgDocument}

periodic_cleanup == CleanupJob(ExpiryDays)

NextExpiry ==
    \/ /\ stats.messages_processed < MaxMsgs + 1
       /\ \E c \in AllChats, m \in ExpiryMessages : HandleMessageIgnored(c, m)
    \/ /\ stats.messages_processed < MaxMsgs + 1
       /\ \E c \in AllChats, m \in ExpiryMessages, rt \in ResponseTimes :
             HandleMessageNew(c, m, rt)
    \/ /\ stats.messages_processed < MaxMsgs + 1
       /\ \E c \in AllChats, m \in ExpiryMessages : HandleMessageDuplicate(c, m)
    \/ \E rt \in ResponseTimes : DeleteSucceeded(rt)
    \/ \E r \in DeleteResults, rt \in ResponseTimes : DeleteFailed(r, rt)
    \/ \E c \in AllChats, ok \in BOOLEAN : start_bot_command(c, ok)
    \/ \E c \in AllChats, ok \in BOOLEAN : stop_bot_command(c, ok)
    \/ \E c \in AllChats, t \in ChatTypes, o \in OldStatuses, n \in Statuses :
          \/ MemberUpdateAutoActivate(c, t, o, n)
          \/ MemberUpdateRemoved(c, t, o, n)
          \/ MemberUpdateOther(c, t, o, n)
    \/ periodic_cleanup
    \/ TickTo(MaxTime + 1)

SpecExpiry == TwoChatsStart /\ [][NextExpiry]_vars

\* The Flask thread serving /stats beside the bot's thread, for one chat that
\* receives the same text twice, forwarded or not.
StatsMessages == {MsgHello, MsgHelloFwd}

NextStats ==
    \/ /\ stats.messages_processed < MaxMsgs
       /\ \E m \in StatsMessages : HandleMessageIgnored(ChatX, m)
    \/ /\ stats.messages_processed < MaxMsgs
       /\ \E m \in StatsMessages, rt \in ResponseTimes : HandleMessageNew(ChatX, m, rt)
    \/ /\ stats.messages_processed < MaxMsgs
       /\ \E m \in StatsMessages : HandleMessageDuplicate(ChatX, m)
    \/ \E rt \in ResponseTimes : DeleteSucceeded(rt)
    \/ \E r \in DeleteResults, rt \in ResponseTimes : DeleteFailed(r, rt)
    \/ \E ok \in BOOLEAN : start_bot_command(ChatX, ok)
    \/ StatsRead
    \/ StatsReturn

SpecStats == Init /\ [][NextStats]_vars

\* The membership updates with every chat type and every pair of statuses, and
\* the two commands, for two chats.
handle_chat_member_update(chat_id, chat_type, old_status, new_status) ==
    \/ MemberUpdateAutoActivate(chat_id, chat_type, old_status, new_status)
    \/ MemberUpdateRemoved(chat_id, chat_type, old_status, new_status)
    \/ MemberUpdateOther(chat_id, chat_type, old_status, new_status)

NextMembership ==
    \/ \E c \in AllChats, t \in AllChatTypes, o \in AllOldStatuses, n \in AllStatuses :
          handle_chat_member_update(c, t, o, n)
    \/ \E c \in AllChats, ok \in BOOLEAN : start_bot_command(c, ok)
    \/ \E c \in AllChats, ok \in BOOLEAN : stop_bot_command(c, ok)

SpecMembership == Init /\ [][NextMembership]_vars

\* The gates of handle_message: one chat that receives, beside a text, a
\* service message, a text that starts with a slash and a message of a bot.
GateMessages == {MsgHello, MsgService, MsgCommand, MsgFromBot}

NextGates == NextOver({ChatX}, GateMessages, MaxMsgs)

SpecGates == Init /\ [][NextGates]_vars

\* The response time estimate: one chat, one text, and response times that
\* differ from call to call: none measurable (time.time() returned the same
\* value twice), one unit and two units.
ResponseSamples == {0, 2 ^ MaxMsgs, 2 ^ (MaxMsgs + 1)}

NextResponseTime ==
    \/ /\ stats.messages_processed < MaxMsgs
       /\ HandleMessageIgnored(ChatX, MsgHello)
    \/ /\ stats.messages_processed < MaxMsgs
       /\ \E rt \in ResponseSamples : HandleMessageNew(ChatX, MsgHello, rt)
    \/ /\ stats.messages_processed < MaxMsgs
       /\ HandleMessageDuplicate(ChatX, MsgHello)
    \/ \E rt \in ResponseSamples : DeleteSucceeded(rt)
    \/ \E r \in DeleteResults, rt \in ResponseSamples : DeleteFailed(r, rt)
    \/ \E ok \in BOOLEAN : start_bot_command(ChatX, ok)
    \/ \E ok \in BOOLEAN : stop_bot_command(ChatX, ok)
    \/ cleanup_job

SpecResponseTime == Init /\ [][NextResponseTime]_vars

\* generate_message_hash alone.  A state holds two messages, the order in
\* which the parts of the second are handed to sorted(), and the results of
\* generate_message_hash for both once it has been called.  The second message
\* starts as a copy of the first and is rewritten one character at a time: the
\* case of a letter of its text or caption changes, or a whitespace character
\* is added to or taken from the ends or a run of whitespace of a text or
\* caption that stays non-empty (Telegram delivers no empty text).
FlipChar(c) == IF c = "a" THEN "A" ELSE IF c = "A" THEN "a" ELSE c

\* t is s with the case of one letter changed
CaseChanged(s, t) ==
    /\ Len(t) = Len(s)
    /\ \E i \in 1..Len(s) :
          /\ t[i] # s[i]
          /\ t[i] = FlipChar(s[i])
          /\ \A j \in 1..Len(s) : j # i => t[j] = s[j]

\* t is s with one more whitespace character at an end or in a run of whitespace
SpaceAdded(s, t) ==
    /\ Len(s) >= 1
    /\ Len(t) = Len(s) + 1
    /\ \E i \in 1..Len(t) :
          /\ IsSpace(t[i])
          /\ \A j \in 1..Len(s) : s[j] = IF j < i THEN t[j] ELSE t[j + 1]
          /\ \/ i = 1
             \/ i = Len(t)
             \/ (i > 1 /\ IsSpace(t[i - 1]))
             \/ (i < Len(t) /\ IsSpace(t[i + 1]))

Rewritten(s, t) == CaseChanged(s, t) \/ SpaceAdded(s, t) \/ SpaceAdded(t, s)

IdentityOrder(m) == [i \in 1..Len(ContentParts(m)) |-> i]

\* the messages the second message is a rewriting of
ProbeStart ==
    {ProbeText(<<"a">>), ProbeText(<<"a", "a">>), ProbeText(<<"a", " ", "a">>),
     ProbeCaptioned(<<"a">>), ProbeCaptioned(<<"a", " ", "a">>), MsgGif}

FingerprintStart ==
    /\ Constructed
    /\ probe \in {<<[first |-> m, second |-> m, order |-> IdentityOrder(m),
                      results |-> <<>>]>> : m \in ProbeStart}

\* what a step of this specification leaves alone
ProbeFrame ==
    UNCHANGED <<message_store, active_chats, auto_activated_channels,
                rate_limit_tracker, error_tracker, stats, now, pending, last, prev,
                fresh, snapshot, instants>>

RewriteText ==
    /\ probe # <<>>
    /\ TruthySeq(probe[1].second.text)
    /\ \E t \in ProbeTexts :
          /\ Rewritten(probe[1].second.text, t)
          /\ probe' = <<[probe[1] EXCEPT !.second.text = t, !.results = <<>>]>>
    /\ ProbeFrame

RewriteCaption ==
    /\ probe # <<>>
    /\ TruthySeq(probe[1].second.caption)
    /\ \E t \in ProbeTexts :
          /\ Rewritten(probe[1].second.caption, t)
          /\ probe' = <<[probe[1] EXCEPT !.second.caption = t, !.results = <<>>]>>
    /\ ProbeFrame

Reorder ==
    /\ probe # <<>>
    /\ \E o \in Perms(Len(probe[1].order)) :
          /\ o # probe[1].order
          /\ probe' = <<[probe[1] EXCEPT !.order = o, !.results = <<>>]>>
    /\ ProbeFrame

\* generate_message_hash is called for both messages
Fingerprint ==
    /\ probe # <<>>
    /\ probe[1].results = <<>>
    /\ probe' = <<[probe[1] EXCEPT !.results =
                      <<generate_message_hash(probe[1].first),
                        generate_message_hash_in_order(probe[1].second,
                                                       probe[1].order)>>]>>
    /\ ProbeFrame

NextFingerprint == RewriteText \/ RewriteCaption \/ Reorder \/ Fingerprint

SpecFingerprint == FingerprintStart /\ [][NextFingerprint]_vars

\* two chats from the state after construction, in which TwoChatsStart is reached
NextFromConstruction == NextOver(AllChats, Messages, MaxMsgs)

SpecFromConstruction == Init /\ [][NextFromConstruction]_vars

\* ------------------------------------------------------------------------
\* Properties
\* ------------------------------------------------------------------------

\* the entries of the chat of the operation that completed last
LastEntries == EntriesOf(message_store, last.chat)

\* the last completed operation is a handle_message that stored a new message
LastStoredNew == last.op = "process" /\ last.action = "store_new"

\* the last completed operation is a handle_message that found a duplicate
LastFoundDuplicate == last.op = "process" /\ last.action = "delete_duplicate"

\* this step is the return of a handle_message call
HandleMessageReturns ==
    /\ pending' = <<>>
    /\ last'.op = "process"
    /\ \/ pending # <<>>
       \/ stats'.messages_processed = stats.messages_processed + 1

\* C1: whenever a handle_message call that stored a new message has completed
\* (limit_chat_entries included), no chat holds more than MAX_ENTRIES_PER_CHAT
\* entries.
C1_SizeWithinCapacity ==
    \A c \in DOMAIN message_store : Len(message_store[c]) <= MAX_ENTRIES_PER_CHAT

\* a message was stored in a full chat, entries were evicted, and the chat is
\* at its capacity
C1_Witness ==
    /\ LastStoredNew
    /\ last.removed # <<>>
    /\ Len(LastEntries) = MAX_ENTRIES_PER_CHAT

\* C2 (as claimed): when a handle_message call that stored a new message is
\* followed by a call for the same chat and the same fingerprint, the second
\* call takes the duplicate branch, duplicates_deleted has grown by exactly 1
\* over the two calls and messages_processed by exactly 2.
C2_StoreThenDelete ==
    [][(/\ LastStoredNew
        /\ HandleMessageReturns
        /\ last'.chat = last.chat
        /\ last'.hash = last.hash)
       => (/\ last'.action = "delete_duplicate"
           /\ last.d_dups + last'.d_dups = 1
           /\ last.d_processed + last'.d_processed = 2)]_vars

\* C3: when limit_chat_entries evicts, every evicted entry has a timestamp less
\* than or equal to the timestamp of every entry it keeps.
C3_EvictsOldest ==
    (LastStoredNew /\ last.removed # <<>>)
    => \A i \in 1..Len(last.removed), j \in 1..Len(LastEntries) :
           last.removed[i].timestamp <= LastEntries[j].timestamp

\* an eviction that had entries of different ages to choose from
C3_Witness ==
    /\ LastStoredNew
    /\ \E i \in 1..Len(last.removed), j \in 1..Len(LastEntries) :
           last.removed[i].timestamp < LastEntries[j].timestamp

\* C4 (as claimed): among entries with equal timestamps, limit_chat_entries
\* evicts the entry that was stored earlier (the smaller message id) before the
\* one stored later.
C4_TiesEvictEarlierInsertion ==
    (LastStoredNew /\ last.removed # <<>>)
    => \A i \in 1..Len(last.removed), j \in 1..Len(LastEntries) :
           last.removed[i].timestamp = LastEntries[j].timestamp
           => last.removed[i].message_id < LastEntries[j].message_id

\* C5 (as claimed): after a chat with an empty store has stored
\* MAX_ENTRIES_PER_CHAT + 1 messages with distinct fingerprints, it holds
\* exactly MAX_ENTRIES_PER_CHAT entries, the first stored is gone and the
\* others are all present.
C5_FirstInsertedEvicted ==
    (LastStoredNew /\ fresh[last.chat] = MAX_ENTRIES_PER_CHAT + 1)
    => /\ Len(LastEntries) = MAX_ENTRIES_PER_CHAT
       /\ Len(last.removed) = 1
       /\ \A j \in 1..Len(LastEntries) :
              last.removed[1].message_id < LastEntries[j].message_id

\* C6: a handle_message call that stores a new message in a chat, with the
\* eviction it triggers, leaves the key, the entries and their order of every
\* other chat unchanged.
C6_EvictionIsLocal ==
    [][(/\ HandleMessageReturns
        /\ last'.action = "store_new")
       => \A d \in AllChats \ {last'.chat} :
             /\ (d \in DOMAIN message_store') = (d \in DOMAIN message_store)
             /\ EntriesOf(message_store', d) = EntriesOf(message_store, d)]_vars

\* an eviction in one chat while the other chat holds entries
C6_Witness ==
    /\ LastStoredNew
    /\ last.removed # <<>>
    /\ \E d \in AllChats \ {last.chat} : EntriesOf(message_store, d) # <<>>

\* C7 (as claimed): when a failed delete takes a chat's error count past
\* MAX_ERRORS_PER_CHAT, the chat is inactive and its store is empty.
C7_AutoDeactivateClearsStore ==
    (/\ LastFoundDuplicate
     /\ last.result # "ok"
     /\ error_tracker[last.chat] > MAX_ERRORS_PER_CHAT)
    => /\ ~Get(active_chats, last.chat, FALSE)
       /\ Len(LastEntries) = 0

\* stop_bot_command followed at once by start_bot_command for the same chat
StoppedThenStarted ==
    /\ prev.op = "deactivate"
    /\ last.op = "activate"
    /\ last.chat = prev.chat

\* C8: after stop_bot_command followed by start_bot_command the chat is active
\* with an empty store, and the next message handled for it is never taken
\* for a duplicate.
C8_StopStartEmptiesStore ==
    [][/\ StoppedThenStarted'
          => /\ Get(active_chats', last'.chat, FALSE)
             /\ EntriesOf(message_store', last'.chat) = <<>>
       /\ (StoppedThenStarted
           /\ stats'.messages_processed = stats.messages_processed + 1)
          => /\ pending' = <<>>
             /\ last'.op = "process"
             /\ last'.chat = prev.chat
             /\ last'.action \in {"store_new", "ignore"}]_vars

\* a chat that held entries was stopped and started again
C8_Witness == StoppedThenStarted /\ prev.cleared > 0

\* C9: the refresh of a repeat sighting changes only the timestamp of the
\* matched entry: the keys of the store, every chat's entry count and order,
\* every other field of the matched entry and every other entry are unchanged.
C9_TouchChangesTimestampOnly ==
    [][(pending # <<>> /\ pending' = <<>>)
       => /\ DOMAIN message_store' = DOMAIN message_store
          /\ \A c \in DOMAIN message_store :
                /\ Len(message_store'[c]) = Len(message_store[c])
                /\ \A i \in 1..Len(message_store[c]) :
                      IF c = pending[1].chat_id
                         /\ message_store[c][i].hash = pending[1].message_hash
                      THEN message_store'[c][i] =
                               [message_store[c][i] EXCEPT !.timestamp =
                                   message_store'[c][i].timestamp]
                      ELSE message_store'[c][i] = message_store[c][i]]_vars

\* a refresh that moved the timestamp of an entry stored next to another one
C9_Witness ==
    /\ LastFoundDuplicate
    /\ last.result = "ok"
    /\ last.old_time < last.time
    /\ Len(LastEntries) = MAX_ENTRIES_PER_CHAT
    /\ \E i \in 1..Len(LastEntries) :
          /\ LastEntries[i].hash = last.hash
          /\ LastEntries[i].timestamp = last.time

\* C10 (as claimed): after every repeat sighting, whatever delete_message
\* answered, the stored entry's timestamp is the time of that sighting.
C10_RefreshedWhateverTheResult ==
    LastFoundDuplicate
    => \E i \in 1..Len(LastEntries) :
          /\ LastEntries[i].hash = last.hash
          /\ LastEntries[i].timestamp = last.time

\* C11: with self.EXPIRY_DAYS = None a run of the cleanup job leaves the whole
\* store as it was: no entry and no chat is removed, whatever the entries' ages.
C11_SweepDisabledIsNoOp == [][cleanup_job => message_store' = message_store]_vars

\* the cleanup job ran over an entry older than the time of the run
C11_Witness ==
    /\ last.op = "run_sweep"
    /\ \E c \in DOMAIN message_store : \E i \in 1..Len(message_store[c]) :
          message_store[c][i].timestamp < last.time

\* C12: with self.EXPIRY_DAYS = ExpiryDays a run of the cleanup job leaves only
\* entries that were stored before the run and are at most ExpiryDays old,
\* removes only entries older than ExpiryDays, and leaves no chat without
\* entries in the store.
C12_SweepRemovesExactlyExpired ==
    [][periodic_cleanup
       => /\ \A c \in DOMAIN message_store' :
                /\ message_store'[c] # <<>>
                /\ c \in DOMAIN message_store
                /\ \A i \in 1..Len(message_store'[c]) :
                      /\ now - message_store'[c][i].timestamp <= ExpiryDays
                      /\ \E j \in 1..Len(message_store[c]) :
                            message_store[c][j] = message_store'[c][i]
          /\ \A c \in DOMAIN message_store : \A j \in 1..Len(message_store[c]) :
                ~HasHash(EntriesOf(message_store', c), message_store[c][j].hash)
                   => now - message_store[c][j].timestamp > ExpiryDays]_vars

\* a run of the cleanup job removed entries and kept one that is exactly
\* ExpiryDays old
C12_Witness ==
    /\ last.op = "run_sweep"
    /\ last.cleared > 0
    /\ \E c \in DOMAIN message_store : \E i \in 1..Len(message_store[c]) :
          last.time - message_store[c][i].timestamp = ExpiryDays

\* C13: a run of the cleanup job that follows another run at the same clock
\* value, with no change of the store between them, leaves the store as the
\* first run left it.
C13_SweepIdempotent ==
    [][(/\ last.op = "run_sweep"
        /\ last.time = now
        /\ periodic_cleanup)
       => message_store' = message_store]_vars

\* two runs in a row at the same clock value, the first of which removed
\* entries and left others
C13_Witness ==
    /\ prev.op = "run_sweep"
    /\ prev.cleared > 0
    /\ last.op = "run_sweep"
    /\ last.time = prev.time
    /\ message_store # <<>>

\* C14: cleanup_expired_messages has no await, so the cleanup job runs from its
\* first to its last statement before any handler continues: in every state a
\* handle_message call can start or resume in after a run of the job, no chat
\* holds an entry that was expired at the time of the run and no chat is left
\* without entries.
C14_SweepAtomic ==
    last.op = "run_sweep"
       => \A c \in DOMAIN message_store :
             /\ message_store[c] # <<>>
             /\ \A i \in 1..Len(message_store[c]) :
                   message_store[c][i].timestamp >= last.time - ExpiryDays

\* the cleanup job ran while a handle_message call was suspended in
\* delete_message and removed the entry the call had found
C14_Witness ==
    /\ pending # <<>>
    /\ last.op = "run_sweep"
    /\ last.cleared > 0
    /\ ~HasHash(EntriesOf(message_store, pending[1].chat_id), pending[1].message_hash)

\* C15 (as claimed): the counters in a response of stats() are the values the
\* counters had together at one instant while the request was served.
C15_SnapshotIsOneInstant ==
    Len(snapshot) = Len(CountersOf(stats)) => snapshot \in instants

\* the size of the largest chat of the store, 0 for an empty store
LargestChat(store) ==
    IF DOMAIN store = {} THEN 0
    ELSE LET c == CHOOSE c \in DOMAIN store :
                     \A d \in DOMAIN store : Len(store[c]) >= Len(store[d])
         IN  Len(store[c])

\* C16 (as claimed): after every step that changes the store,
\* stats['total_memory_usage'] is the sum of the sizes of all chats and
\* stats['largest_chat_size'] is the size of the largest chat.
C16_MemoryStatsFollowStore ==
    [][message_store' # message_store
       => /\ stats'.total_memory_usage = TotalEntries(message_store')
          /\ stats'.largest_chat_size = LargestChat(message_store')]_vars

\* C17: no step of any handler or of the cleanup job lowers
\* messages_processed, duplicates_deleted, forwarded_duplicates,
\* original_duplicates or the count of any content type.
C17_CountersMonotonic ==
    [][/\ stats'.messages_processed >= stats.messages_processed
       /\ stats'.duplicates_deleted >= stats.duplicates_deleted
       /\ stats'.forwarded_duplicates >= stats.forwarded_duplicates
       /\ stats'.original_duplicates >= stats.original_duplicates
       /\ \A t \in ContentTypes :
             stats'.content_types_processed[t] >= stats.content_types_processed[t]]_vars

\* counters of two content types and of the duplicates have been raised, and
\* the chat was stopped afterwards
C17_Witness ==
    /\ last.op = "deactivate"
    /\ stats.messages_processed = MaxMsgs
    /\ stats.duplicates_deleted > 0
    /\ stats.forwarded_duplicates > 0
    /\ stats.content_types_processed["text"] > 0
    /\ stats.content_types_processed["photo"] > 0

\* C18: a chat that is not active (no key in self.active_chats, or False)
\* becomes active only by a start_bot_command in that chat or by a membership
\* update that makes the bot administrator of that chat; handle_message, the
\* cleanup job and every handler run for another chat leave it inactive.
C18_InactiveUntilActivated ==
    [][\A c \in AllChats :
          (~Get(active_chats, c, FALSE) /\ Get(active_chats', c, FALSE))
             => \/ \E ok \in BOOLEAN : start_bot_command(c, ok)
                \/ \E t \in ChatTypes, o \in OldStatuses, n \in Statuses :
                      MemberUpdateAutoActivate(c, t, o, n)]_vars

\* handle_message has run for a chat that was stopped, which is still
\* inactive, while the other chat is active
C18_Witness ==
    /\ last.op = "process"
    /\ last.action = "ignore"
    /\ last.chat \in DOMAIN active_chats
    /\ ~active_chats[last.chat]
    /\ \E d \in AllChats \ {last.chat} : Get(active_chats, d, FALSE)

\* C19: a membership update whose new status is administrator or owner and
\* whose old status is neither leaves the chat active and auto-activated when
\* the chat is a group, a supergroup or a channel, and leaves active_chats and
\* auto_activated_channels as they were when the chat is private.
C19_AutoActivateGroupsAndChannels ==
    [][\A c \in AllChats, t \in AllChatTypes, o \in AllOldStatuses, n \in AllStatuses :
          (/\ n \in {"administrator", "creator"}
           /\ o \notin {"administrator", "creator"}
           /\ handle_chat_member_update(c, t, o, n))
             => IF t \in {"group", "supergroup", "channel"}
                THEN /\ Get(active_chats', c, FALSE)
                     /\ c \in auto_activated_channels'
                ELSE /\ active_chats' = active_chats
                     /\ auto_activated_channels' = auto_activated_channels]_vars

\* a chat was auto-activated by a membership update while the other chat is
\* neither active nor auto-activated
C19_Witness ==
    /\ last.op = "auto_activate"
    /\ Get(active_chats, last.chat, FALSE)
    /\ last.chat \in auto_activated_channels
    /\ \E d \in AllChats \ {last.chat} :
          ~Get(active_chats, d, FALSE) /\ d \notin auto_activated_channels

\* the bot's state without the clock
program_state ==
    <<message_store, active_chats, auto_activated_channels, rate_limit_tracker,
      error_tracker, stats>>

\* C20: a membership update that reports the bot left or was kicked leaves the
\* chat without a key in active_chats (so inactive), out of
\* auto_activated_channels and without entries; for a chat that has none of
\* the three it changes none of them, and right after another removal of the
\* same chat it changes nothing of the bot's state.
C20_RemoveClearsAndIsIdempotent ==
    [][last'.op = "remove"
       => \A c \in {last'.chat}, t \in ChatTypes, o \in OldStatuses, n \in Statuses :
          MemberUpdateRemoved(c, t, o, n)
             => /\ c \notin DOMAIN active_chats'
                /\ c \notin auto_activated_channels'
                /\ c \notin DOMAIN message_store'
                /\ (/\ c \notin DOMAIN active_chats
                    /\ c \notin auto_activated_channels
                    /\ c \notin DOMAIN message_store)
                      => /\ active_chats' = active_chats
                         /\ auto_activated_channels' = auto_activated_channels
                         /\ message_store' = message_store
                /\ (last.op = "remove" /\ last.chat = c)
                      => program_state' = program_state]_vars

\* the bot was removed twice in a row from a chat that held entries
C20_Witness ==
    /\ prev.op = "remove"
    /\ prev.cleared > 0
    /\ last.op = "remove"
    /\ last.chat = prev.chat
    /\ last.cleared = 0

\* C21 (as claimed): after stop_bot_command followed by start_bot_command the
\* chat's error count is zero, so that MAX_ERRORS_PER_CHAT + 1 new failures are
\* needed before the chat is deactivated again.
C21_StopStartResetsErrors ==
    StoppedThenStarted => error_tracker[last.chat] = 0

\* C24: handle_message takes a message of a chat for a duplicate only when the
\* message's hash is stored in that chat's own entries; a hash stored only in
\* another chat never makes it call delete_message.
C24_DedupIsPerChat ==
    [][(pending = <<>> /\ pending' # <<>>)
       => HasHash(EntriesOf(message_store, pending'[1].chat_id),
                  pending'[1].message_hash)]_vars

\* a message was stored as new in a chat while the other chat, also active,
\* holds an entry with the same hash
C24_Witness ==
    /\ LastStoredNew
    /\ \E d \in AllChats \ {last.chat} :
          /\ Get(active_chats, d, FALSE)
          /\ HasHash(EntriesOf(message_store, d), last.hash)

\* C25: a handle_message call whose delete_message succeeds leaves the error
\* count of every chat as it was, and no step of any handler lowers the error
\* count of a chat.
C25_SuccessKeepsErrorCount ==
    [][/\ \A c \in AllChats : error_tracker'[c] >= error_tracker[c]
       /\ (pending # <<>> /\ pending' = <<>> /\ last'.result = "ok")
             => error_tracker' = error_tracker]_vars

\* a delete succeeded in a chat that is active and has failures counted
C25_Witness ==
    /\ LastFoundDuplicate
    /\ last.result = "ok"
    /\ Get(active_chats, last.chat, FALSE)
    /\ error_tracker[last.chat] > 0

\* C27 (as claimed): a delete_message that failed for a rate limit ends the
\* call without another attempt and does not advance the chat's error count
\* nor deactivate the chat.
C27_RateLimitNotCounted ==
    [][(pending # <<>> /\ last'.result = "rate_limited" /\ last' # last)
       => /\ pending' = <<>>
          /\ error_tracker' = error_tracker
          /\ active_chats' = active_chats]_vars

\* C29 (as claimed): when delete_message has returned and handle_message
\* refreshes the entry, the hash it looked up is still in the chat's entries,
\* also when the cleanup job ran during the await.
C29_RefreshFindsEntry ==
    [][(pending # <<>> /\ pending' = <<>> /\ last'.result = "ok")
       => HasHash(EntriesOf(message_store, pending[1].chat_id),
                  pending[1].message_hash)]_vars

\* C30 (as claimed): when handle_message has stored a new message and
\* completed, the message's hash is in the chat's entries.
C30_StoredNewIsPresent ==
    LastStoredNew => HasHash(LastEntries, last.hash)

\* a message without text, caption and media
NoContent(m) ==
    /\ ~TruthySeq(m.text) /\ ~TruthySeq(m.caption) /\ ~TruthySeq(m.photo)
    /\ ~TruthySeq(m.document) /\ ~TruthySeq(m.video) /\ ~TruthySeq(m.audio)
    /\ ~TruthySeq(m.voice) /\ ~TruthySeq(m.video_note) /\ ~TruthySeq(m.sticker)
    /\ ~TruthySeq(m.animation)

\* C23: for a message without text, caption and media generate_message_hash
\* returns (None, None), and a handle_message call for it in an active chat
\* returns at the gate after the hash: it neither stores the message nor
\* calls delete_message, and leaves the store, active_chats and the error
\* counts as they were.
C23_NoContentIsIgnored ==
    [][\A c \in AllChats, m \in GateMessages :
          (NoContent(m) /\ ~m.is_bot)
          => /\ generate_message_hash(m) = <<NoHash, None>>
             /\ \A rt \in ResponseTimes : ~HandleMessageNew(c, m, rt)
             /\ ~HandleMessageDuplicate(c, m)
             /\ (Get(active_chats, c, FALSE) /\ HandleMessageIgnored(c, m))
                   => /\ last'.action = "ignore"
                      /\ last'.result = "no_content"
                      /\ pending' = <<>>
                      /\ message_store' = message_store
                      /\ active_chats' = active_chats
                      /\ error_tracker' = error_tracker]_vars

\* a service message was ignored in an active chat that holds an entry and
\* has a failure counted
C23_Witness ==
    /\ last.op = "process"
    /\ last.result = "no_content"
    /\ Get(active_chats, last.chat, FALSE)
    /\ LastEntries # <<>>
    /\ error_tracker[last.chat] > 0

\* this step is the end of a handle_message call that measured response_time:
\* the call stored a new message, or its delete_message returned or raised
SampledAt(response_time) ==
    \/ \E c \in AllChats, m \in AllMessages : HandleMessageNew(c, m, response_time)
    \/ DeleteSucceeded(response_time)
    \/ \E r \in DeleteResults : DeleteFailed(r, response_time)

\* C28: a handle_message call that runs to its last statement with the
\* response time rt leaves avg_response_time = rt when it was 0 and
\* (avg_response_time + rt) / 2 otherwise (the halving is exact in the units
\* of the model), and no other step changes avg_response_time.
C28_ResponseTimeRule ==
    [][/\ \A rt \in ResponseSamples :
             SampledAt(rt)
             => IF stats.avg_response_time = 0
                THEN stats'.avg_response_time = rt
                ELSE /\ 2 * stats'.avg_response_time = stats.avg_response_time + rt
       /\ stats'.avg_response_time # stats.avg_response_time
             => \E rt \in ResponseSamples : SampledAt(rt)]_vars

\* the estimate is the mean of two different response times
C28_Witness ==
    /\ last.op = "process"
    /\ 2 * stats.avg_response_time = 2 ^ MaxMsgs + 2 ^ (MaxMsgs + 1)

MediaTypes ==
    <<"photo", "document", "video", "audio", "voice", "video_note", "sticker",
      "animation">>

HasMedia(m, t) ==
    CASE t = "photo" -> TruthySeq(m.photo)
      [] t = "document" -> TruthySeq(m.document)
      [] t = "video" -> TruthySeq(m.video)
      [] t = "audio" -> TruthySeq(m.audio)
      [] t = "voice" -> TruthySeq(m.voice)
      [] t = "video_note" -> TruthySeq(m.video_note)
      [] t = "sticker" -> TruthySeq(m.sticker)
      [] t = "animation" -> TruthySeq(m.animation)

\* C26 (as claimed): the type generate_message_hash returns is the first media
\* type it recognises in the message when the message has media, and "text"
\* when the message has text or caption only.
C26_TypeIsFirstMedia ==
    (probe # <<>> /\ probe[1].results # <<>>)
    => LET m == probe[1].first
           media == {i \in 1..Len(MediaTypes) : HasMedia(m, MediaTypes[i])}
       IN  probe[1].results[1][2] =
               IF media # {}
               THEN MediaTypes[CHOOSE i \in media : \A j \in media : i <= j]
               ELSE "text"

\* C31 (as claimed): in every state every chat of auto_activated_channels is
\* active.
C31_AutoActivatedAreActive ==
    \A c \in auto_activated_channels : Get(active_chats, c, FALSE)

\* C32: a handle_message call that returns because the chat is not active,
\* the author is a bot or the text starts with a slash adds one to
\* messages_processed and changes nothing else: it does not call
\* delete_message, and the store, active_chats, auto_activated_channels, the
\* error counts, every other statistic and avg_response_time stay as they were.
C32_IgnoreCountsOnly ==
    [][\A c \in AllChats, m \in GateMessages :
          (/\ \/ ~Get(active_chats, c, FALSE)
              \/ m.is_bot
              \/ IsCommandText(m)
           /\ HandleMessageIgnored(c, m))
          => /\ last'.action = "ignore"
             /\ last'.result \in {"inactive", "bot_or_command"}
             /\ stats' = [stats EXCEPT !.messages_processed = @ + 1]
             /\ pending' = <<>>
             /\ message_store' = message_store
             /\ active_chats' = active_chats
             /\ auto_activated_channels' = auto_activated_channels
             /\ error_tracker' = error_tracker
             /\ rate_limit_tracker' = rate_limit_tracker]_vars

\* a message of a bot or a text with a slash was ignored in an active chat
\* that holds an entry, has a failure counted and a response time measured
C32_Witness ==
    /\ last.op = "process"
    /\ last.result = "bot_or_command"
    /\ Get(active_chats, last.chat, FALSE)
    /\ LastEntries # <<>>
    /\ error_tracker[last.chat] > 0
    /\ stats.avg_response_time > 0

====
